---- MODULE Spec2Model ----
(***************************************************************************)
(* A model of jecoz/voicebr: the nexmo package (client, contact decoding,  *)
(* webhook router) and the local storage.                                  *)
(*                                                                         *)
(* Text that the code parses (contact files, request bodies) is modelled   *)
(* as sequences of one-character strings, so that parsing is computed.     *)
(* Names and URLs that the code only concatenates are TLA+ strings.        *)
(***************************************************************************)
EXTENDS Integers, Sequences, FiniteSets, TLC

VARIABLES
    dirFile,        \* DecodeSpec: what the ContactsProvider read function yields
    decoded,        \* DecodeSpec: the result of DecodeContacts, or NotDecoded
    whitelist,      \* storage: what ReadWhitelist yields
    answerReq,      \* the last request served by /record/voice/answer
    answerResp,     \* the response written for answerReq
    broadcastList,  \* storage: what ReadBroadcastList yields
    cycles,         \* one record per /store/recording/event request
    units,          \* per cycle, the goroutines launched by Client.Call
    callTokens,     \* tokens left in CallLimiter
    getTokens,      \* tokens left in GetLimiter
    recs,           \* storage: the recording files, by file name
    dirs,           \* storage: the directories present, of RootDir and RootDir/recs
    hook            \* the request being served by a logging handler, with its response

vars == <<dirFile, decoded, whitelist, answerReq, answerResp, broadcastList,
          cycles, units, callTokens, getTokens, recs, dirs, hook>>

(***************************************************************************)
(* Bounds of the model.                                                    *)
(***************************************************************************)
MaxLines == 3
MaxCycles == 2
MaxContacts == 4
MaxBatch == 9

(***************************************************************************)
(* Contact files.  A file is a sequence of lines, a line a sequence of     *)
(* characters.  The lines below cover: a comment, an empty line, rows of   *)
(* two fields (one number appearing twice, one with an empty number), a    *)
(* row of one field, a row of three fields and a row with a bare quote.    *)
(***************************************************************************)
Lines ==
    { <<"#", "x">>,
      <<>>,
      <<"1", ",", "a">>,
      <<"2", ",", "b">>,
      <<"1", ",", "c">>,
      <<",", "e">>,
      <<"3">>,
      <<"4", ",", "d", ",", "x">>,
      <<"5", "\"", "q">> }

RECURSIVE SeqsUpTo(_, _)
SeqsUpTo(S, n) ==
    IF n = 0 THEN {<<>>}
    ELSE LET shorter == SeqsUpTo(S, n - 1)
         IN shorter \cup {Append(s, x) : s \in shorter, x \in S}

\* What a ContactsProvider read function does: it fails, or writes the file.
ReadResults ==
    {[err |-> TRUE, data |-> <<>>]}
        \cup {[err |-> FALSE, data |-> d] : d \in SeqsUpTo(Lines, MaxLines)}

(***************************************************************************)
(* encoding/csv as DecodeContacts configures it: Comma = ',', Comment =    *)
(* '#', LazyQuotes off, FieldsPerRecord = 0.                               *)
(***************************************************************************)
Comma == ","
Comment == "#"
Quote == "\""

IndexOfComma(s) ==
    IF \E i \in 1..Len(s) : s[i] = Comma
    THEN CHOOSE i \in 1..Len(s) : s[i] = Comma /\ \A j \in 1..(i - 1) : s[j] # Comma
    ELSE 0

RECURSIVE SplitFields(_)
SplitFields(s) ==
    LET i == IndexOfComma(s)
    IN IF i = 0 THEN <<s>>
       ELSE <<SubSeq(s, 1, i - 1)>> \o SplitFields(SubSeq(s, i + 1, Len(s)))

\* Empty lines and lines starting with the comment character yield no record.
SkippedLine(line) == line = <<>> \/ line[1] = Comment

\* A quote inside a field that does not start with one is csv.ErrBareQuote.
\* (Fields that start with a quote are outside the inputs of the model.)
BareQuote(line) ==
    \E k \in 1..Len(SplitFields(line)) :
        LET f == SplitFields(line)[k]
        IN \E i \in 2..Len(f) : f[i] = Quote

\* FieldsPerRecord = 0: the first record fixes the number of fields, a later
\* record with another number of fields is csv.ErrFieldCount.
FieldCountError(n, rec) == n # 0 /\ Len(rec) # n

RECURSIVE ReadAllFrom(_, _, _, _)
ReadAllFrom(data, i, n, acc) ==
    IF i > Len(data) THEN [recs |-> acc, err |-> FALSE]
    ELSE IF SkippedLine(data[i]) THEN ReadAllFrom(data, i + 1, n, acc)
    ELSE IF BareQuote(data[i]) THEN [recs |-> <<>>, err |-> TRUE]
    ELSE LET rec == SplitFields(data[i])
         IN IF FieldCountError(n, rec) THEN [recs |-> <<>>, err |-> TRUE]
            ELSE ReadAllFrom(data, i + 1, Len(rec), Append(acc, rec))

ReadAll(data) == ReadAllFrom(data, 1, 0, <<>>)

(***************************************************************************)
(* Contacts.                                                               *)
(***************************************************************************)
NewContact(num, name) == [Type |-> "phone", Number |-> num, Name |-> name]

ErrNone == "nil"
ErrRead == "read error"
ErrParse == "decode contacts: parse error"
ErrCorruptedContacts == "contacts file read contains corrupted data"

Discarded(rec) == Len(rec) < 2

RECURSIVE Accumulate(_, _)
Accumulate(records, i) ==
    IF i > Len(records) THEN <<>>
    ELSE IF Discarded(records[i]) THEN Accumulate(records, i + 1)
    ELSE <<NewContact(records[i][1], records[i][2])>> \o Accumulate(records, i + 1)

DecodeContacts(f) ==
    IF f.err THEN [contacts |-> <<>>, err |-> ErrRead]
    ELSE LET r == ReadAll(f.data)
         IN IF r.err THEN [contacts |-> <<>>, err |-> ErrParse]
            ELSE LET acc == Accumulate(r.recs, 1)
                 IN IF Len(acc) # Len(r.recs)
                    THEN [contacts |-> acc, err |-> ErrCorruptedContacts]
                    ELSE [contacts |-> acc, err |-> ErrNone]

NotDecoded == [contacts |-> <<>>, err |-> "not decoded"]

\* The directories as they are when FreshSpec starts: one row, for number 2.
WhitelistAtStart == [err |-> FALSE, data |-> << <<"2", ",", "b">> >>]
BroadcastListAtStart == [err |-> FALSE, data |-> << <<"2", ",", "b">> >>]

\* Storage.ReadWhitelist and Storage.ReadBroadcastList write the file as it is
\* when they are called.
ReadWhitelistAtStart(file) == WhitelistAtStart
ReadWhitelist(file) == file
ReadBroadcastList(file) == file

\* No request served yet by the answer webhook.
NoRequest == [method |-> "none", body |-> [valid |-> FALSE, obj |-> <<>>], query |-> <<>>]
NoResponse == [status |-> 0, body |-> <<>>]

\* No request being served by a logging handler.
NoHook == [path |-> <<>>, method |-> "none", body |-> <<>>, resp |-> NoResponse, log |-> <<>>]

\* The directories of the storage: RootDir and RootDir/recs.
AllDirs == {"root", "recs"}

(***************************************************************************)
(* DecodeSpec: DecodeContacts applied to every contact file of the bounds. *)
(***************************************************************************)
Idle ==
    /\ whitelist = [err |-> TRUE, data |-> <<>>]
    /\ answerReq = NoRequest
    /\ answerResp = NoResponse
    /\ broadcastList = [err |-> TRUE, data |-> <<>>]
    /\ cycles = <<>>
    /\ units = <<>>
    /\ callTokens = 0
    /\ getTokens = 0
    /\ recs = <<>>
    /\ dirs = AllDirs
    /\ hook = NoHook

DecodeInit ==
    /\ dirFile \in ReadResults
    /\ decoded = NotDecoded
    /\ Idle

Decode ==
    /\ decoded = NotDecoded
    /\ decoded' = DecodeContacts(dirFile)
    /\ UNCHANGED <<dirFile, whitelist, answerReq, answerResp, broadcastList,
                   cycles, units, callTokens, getTokens, recs, dirs, hook>>

DecodeNext == Decode

DecodeSpec == DecodeInit /\ [][DecodeNext]_vars

\* The data rows of a file: its lines that are neither empty nor comments,
\* split into fields.
RECURSIVE DataRows(_)
DataRows(data) ==
    IF data = <<>> THEN <<>>
    ELSE IF SkippedLine(Head(data)) THEN DataRows(Tail(data))
    ELSE <<SplitFields(Head(data))>> \o DataRows(Tail(data))

WellFormed(row) == Len(row) >= 2
RowsParse(f) == ~f.err /\ \A i \in 1..Len(f.data) : ~BareQuote(f.data[i])

RECURSIVE ContactsOf(_)
ContactsOf(rows) ==
    IF rows = <<>> THEN <<>>
    ELSE <<NewContact(Head(rows)[1], Head(rows)[2])>> \o ContactsOf(Tail(rows))

WellFormedRows(f) == SelectSeq(DataRows(f.data), WellFormed)

\* C1: a file whose data rows mix well-formed rows and rows of fewer than two
\* fields (or has only the latter) decodes to exactly the well-formed rows,
\* in order, together with ErrCorruptedContacts.
C1_PartialDecode ==
    (/\ decoded # NotDecoded
     /\ RowsParse(dirFile)
     /\ \E i \in 1..Len(DataRows(dirFile.data)) : ~WellFormed(DataRows(dirFile.data)[i]))
        => decoded = [contacts |-> ContactsOf(WellFormedRows(dirFile)),
                      err |-> ErrCorruptedContacts]

\* C6: a file whose data rows all have at least two fields (not necessarily
\* the same number of fields) decodes to all its rows, in order, with no error.
C6_FullDecode ==
    (/\ decoded # NotDecoded
     /\ RowsParse(dirFile)
     /\ \A i \in 1..Len(DataRows(dirFile.data)) : WellFormed(DataRows(dirFile.data)[i]))
        => decoded = [contacts |-> ContactsOf(DataRows(dirFile.data)),
                      err |-> ErrNone]

(***************************************************************************)
(* The answer webhook of the inbound leg, /record/voice/answer.            *)
(*                                                                         *)
(* A request has a method, a body and a query.  A body is either not JSON  *)
(* (valid = FALSE) or a JSON object, given by its members; a query is      *)
(* given by its parameters.                                                *)
(***************************************************************************)
Origin == "https://origin"
recFormat == "mp3"

Url(origin, path) == [origin |-> origin, path |-> path]

FromValues == {<<>>, <<"1">>, <<"2">>, <<"9">>}
Members == {<<>>} \cup {[from |-> v] : v \in FromValues}
Bodies == {[valid |-> FALSE, obj |-> <<>>]} \cup {[valid |-> TRUE, obj |-> m] : m \in Members}
Requests == [method : {"POST", "GET"}, body : Bodies, query : Members]

\* json.Decoder.Decode into struct{From string}: a missing member leaves "".
callerFromRequestBody(body) ==
    IF ~body.valid THEN [from |-> <<>>, err |-> TRUE]
    ELSE [from |-> IF "from" \in DOMAIN body.obj THEN body.obj.from ELSE <<>>,
          err |-> FALSE]

\* url.Values.Get: "" for a missing parameter.
callerFromRequestQuery(query) ==
    LET from == IF "from" \in DOMAIN query THEN query.from ELSE <<>>
    IN IF from = <<>> THEN [from |-> <<>>, err |-> TRUE]
       ELSE [from |-> from, err |-> FALSE]

CallerFromRequest(r) ==
    IF r.method = "POST" THEN callerFromRequestBody(r.body)
    ELSE callerFromRequestQuery(r.query)

\* The loop over the whitelist keeps the last entry whose number matches;
\* 0 stands for the nil caller.
FindCaller(list, from) ==
    IF \E i \in 1..Len(list) : list[i].Number = from
    THEN CHOOSE i \in 1..Len(list) :
            /\ list[i].Number = from
            /\ \A j \in (i + 1)..Len(list) : list[j].Number # from
    ELSE 0

RecordNcco(name) ==
    << [action |-> "talk", voiceName |-> "Carla", text |-> <<"Parla pure", name>>],
       [action |-> "record", beepStart |-> TRUE, format |-> recFormat,
        eventUrl |-> <<Url(Origin, <<"store", "recording", "event">>)>>,
        endOnKey |-> "#"] >>

Response(status, body) == [status |-> status, body |-> body]

\* Any decode error, ErrCorruptedContacts included, ends the request.
WhitelistFailedOnHardErrors(err) == err \notin {ErrNone, ErrCorruptedContacts}
WhitelistFailed(err) == err # ErrNone

RecordAnswerHandler(r, wl) ==
    LET c == CallerFromRequest(r)
    IN IF c.err THEN Response(401, <<>>)
       ELSE LET d == DecodeContacts(wl)
            IN IF WhitelistFailed(d.err) THEN Response(500, <<>>)
               ELSE LET i == FindCaller(d.contacts, c.from)
                    IN IF i = 0 THEN Response(401, <<>>)
                       ELSE Response(200, RecordNcco(d.contacts[i].Name))

AnswerIdle ==
    /\ dirFile = [err |-> TRUE, data |-> <<>>]
    /\ decoded = NotDecoded
    /\ broadcastList = [err |-> TRUE, data |-> <<>>]
    /\ cycles = <<>>
    /\ units = <<>>
    /\ callTokens = 0
    /\ getTokens = 0
    /\ recs = <<>>
    /\ dirs = AllDirs
    /\ hook = NoHook

AnswerInit ==
    /\ whitelist \in ReadResults
    /\ answerReq = NoRequest
    /\ answerResp = NoResponse
    /\ AnswerIdle

\* One request is served at a time in the model: the handler keeps no state
\* between requests, so concurrent requests are independent of each other.
AnswerOf(requests) ==
    \E r \in requests :
        /\ answerResp = NoResponse
        /\ answerReq' = r
        /\ answerResp' = RecordAnswerHandler(r, ReadWhitelist(whitelist))
        /\ UNCHANGED <<dirFile, decoded, whitelist, broadcastList, cycles, units,
                       callTokens, getTokens, recs, dirs, hook>>

Answer == AnswerOf(Requests)

\* The response has been sent: the server is ready for the next request.
AnswerDone ==
    /\ answerResp # NoResponse
    /\ answerReq' = NoRequest
    /\ answerResp' = NoResponse
    /\ UNCHANGED <<dirFile, decoded, whitelist, broadcastList, cycles, units,
                   callTokens, getTokens, recs, dirs, hook>>

AnswerNext == Answer \/ AnswerDone

AnswerSpec == AnswerInit /\ [][AnswerNext]_vars

\* The caller identity a request carries: the body's "from" of a POST, the
\* query's "from" otherwise; <<>> when there is none.
Identity(r) ==
    IF r.method = "POST"
    THEN IF r.body.valid /\ "from" \in DOMAIN r.body.obj THEN r.body.obj.from ELSE <<>>
    ELSE IF "from" \in DOMAIN r.query THEN r.query.from ELSE <<>>

Served == answerResp # NoResponse
WellFormedBody(r) == r.method = "POST" => r.body.valid

\* The numbers of a whitelist file: field 0 of its rows of two fields or more.
NumbersOf(f) == {WellFormedRows(f)[i][1] : i \in 1..Len(WellFormedRows(f))}

IsTalkThenRecord(body) ==
    /\ Len(body) = 2
    /\ body[1].action = "talk"
    /\ body[2].action = "record"

CleanWhitelist(f) ==
    /\ RowsParse(f)
    /\ \A i \in 1..Len(DataRows(f.data)) :
          /\ WellFormed(DataRows(f.data)[i])
          /\ Len(DataRows(f.data)[i]) = Len(DataRows(f.data)[1])

\* The name in the last row of the file whose number is x.
LastNameOf(f, x) ==
    LET rows == DataRows(f.data)
        i == CHOOSE k \in 1..Len(rows) :
                rows[k][1] = x /\ \A j \in (k + 1)..Len(rows) : rows[j][1] # x
    IN rows[i][2]

C10_AbsentIdentityRejected ==
    (Served /\ WellFormedBody(answerReq) /\ Identity(answerReq) = <<>>
        /\ CleanWhitelist(whitelist))
        => answerResp.status = 401 /\ answerResp.body = <<>>

(***************************************************************************)
(* The broadcast pipeline: the recording-stored webhook, Client.Get,       *)
(* Storage.WriteRec, Client.Call and its call units, the two limiters and  *)
(* the playback webhook.                                                   *)
(*                                                                         *)
(* Time advances in ticks of one second (Tick).  A context with a timeout  *)
(* is its number of seconds left: 0 once expired, -1 once a whole second   *)
(* has passed since.                                                       *)
(***************************************************************************)
Cycles == DOMAIN cycles
UUIDs == {"A", "B"}
ClientNumber == <<"7">>

\* The broadcast lists of the pipeline: unreadable; rows of different lengths
\* (a parse error); only rows of one field (the partial error, no contact);
\* one contact.
BroadcastFiles ==
    { [err |-> TRUE, data |-> <<>>],
      [err |-> FALSE, data |-> << <<"1", ",", "a">>, <<"3">> >>],
      [err |-> FALSE, data |-> << <<"3">> >>],
      [err |-> FALSE, data |-> << <<"2", ",", "b">> >>] }

\* The broadcast lists of a single broadcast: a comment and n rows of two
\* fields, for every n up to MaxContacts; the first two rows have the same
\* number, the third a number with a character that JSON text escapes.
RowAt(i) ==
    IF i % 3 = 1 THEN <<"1", ",", "a">>
    ELSE IF i % 3 = 2 THEN <<"1", ",", "c">>
    ELSE <<"2", "&", ",", "b">>

ListOf(n) == [err |-> FALSE, data |-> << <<"#", "x">> >> \o [i \in 1..n |-> RowAt(i)]]

CallFiles == {ListOf(n) : n \in 0..MaxContacts}

\* The broadcast lists of a batch: as above, up to MaxBatch rows.
BatchFiles == {ListOf(n) : n \in 0..MaxBatch}

\* A recording-stored event.  Only a POST has its body decoded, and only a
\* JSON body yields the uuid by which the platform names the recording.
Events ==
    {[method |-> "POST", valid |-> TRUE, recording_uuid |-> u] : u \in UUIDs}
        \cup {[method |-> "POST", valid |-> FALSE, recording_uuid |-> ""],
              [method |-> "GET", valid |-> FALSE, recording_uuid |-> ""]}

NoEvent == [method |-> "none", valid |-> FALSE, recording_uuid |-> ""]

\* What an HTTP exchange can come to: a transport error, or a response with
\* its status code and status text (http.Response.StatusCode and .Status).
Statuses == {200, 201, 202, 204, 404, 500}
StatusText(status) ==
    CASE status = 200 -> "200 OK"
      [] status = 201 -> "201 Created"
      [] status = 202 -> "202 Accepted"
      [] status = 204 -> "204 No Content"
      [] status = 404 -> "404 Not Found"
      [] status = 500 -> "500 Internal Server Error"

HttpOutcomes ==
    {[err |-> TRUE, status |-> 0]} \cup {[err |-> FALSE, status |-> st] : st \in Statuses}

\* The outcomes drawn where several cycles or many units run: a transport
\* error, a status that checkStatus accepts and one that it refuses.
PipelineOutcomes == {o \in HttpOutcomes : o.status \in {0, 200, 500}}

ErrTransport == "transport error"

checkStatusAny2xx(status) ==
    IF status \div 100 = 2 THEN ErrNone ELSE "request failed: " \o StatusText(status)
checkStatus(status) ==
    IF status = 200 \/ status = 201 THEN ErrNone
    ELSE "request failed: " \o StatusText(status)

\* Client.Do once the request is on the wire.
DoResult(outcome) == IF outcome.err THEN ErrTransport ELSE checkStatus(outcome.status)

ErrLimiter == "client: unable to perform: context deadline exceeded"

(***************************************************************************)
(* The limiters.  NewLimiter and Limiter.Wait are modelled as a token      *)
(* bucket that holds at most its rate and is refilled every second; Wait   *)
(* fails for an expired context, takes a token when there is one, and      *)
(* blocks otherwise.                                                       *)
(***************************************************************************)
CallRate == 3
GetRate == 15
Background == 1000

LimiterWait(left, tokens) ==
    IF left <= 0 THEN "error"
    ELSE IF tokens > 0 THEN "granted"
    ELSE "blocked"

\* Client.Post and Client.Get: the request is made only if Wait returned nil.
SendsAlways(wait) == wait # "blocked"
SendsAfterWait(wait) == wait = "granted"

(***************************************************************************)
(* Client.Call.                                                            *)
(***************************************************************************)
CallProceedsOnNilOnly(err) == err = ErrNone
CallProceeds(err) == err = ErrNone \/ err = ErrCorruptedContacts

DeadlineDivisor == 3
DeadlineUnclamped(n) == (n \div DeadlineDivisor) * 2
DeadlineNotDoubled(n) == IF n \div DeadlineDivisor < 1 THEN 1 ELSE n \div DeadlineDivisor
Deadline(n) ==
    LET q == n \div DeadlineDivisor
    IN (IF q < 1 THEN 1 ELSE q) * 2

RecNameFixed(uuid) == "recording." \o recFormat
RecName(uuid) == uuid \o "." \o recFormat

\* encoding/json writes a string between quotes, with a backslash before a
\* quote and a backslash, and (EscapeHTML) the ampersand as \u0026.
JsonEscape(ch) ==
    IF ch = "\"" THEN <<"\\", "\"">>
    ELSE IF ch = "\\" THEN <<"\\", "\\">>
    ELSE IF ch = "&" THEN <<"\\", "u", "0", "0", "2", "6">>
    ELSE <<ch>>

RECURSIVE JsonEscapeAll(_)
JsonEscapeAll(str) ==
    IF str = <<>> THEN <<>> ELSE JsonEscape(Head(str)) \o JsonEscapeAll(Tail(str))

JsonString(str) == <<"\"">> \o JsonEscapeAll(str) \o <<"\"">>

\* The JSON that Client.call posts: Contact.Name is never encoded.
EncodeContactWithName(c) ==
    [type |-> c.Type, number |-> JsonString(c.Number), name |-> JsonString(c.Name)]
EncodeContact(c) == [type |-> c.Type, number |-> JsonString(c.Number)]
CallPayload(to, recName) ==
    [to |-> <<EncodeContact(to)>>,
     from |-> EncodeContact([Type |-> "phone", Number |-> ClientNumber, Name |-> <<>>]),
     answer_url |-> <<Url(Origin, <<"play", "recording", recName>>)>>,
     event_url |-> <<Url(Origin, <<"play", "recording", "event">>)>>]

NewUnit(contact, recName) ==
    [contact |-> contact, recName |-> recName, pc |-> "spawned", deadline |-> 0, left |-> 0,
     posts |-> 0, granted |-> 0, sent |-> 0, payload |-> <<>>, result |-> "running",
     status |-> 0, played |-> <<>>]

\* One goroutine per element of contacts, in order.
RECURSIVE SpawnDistinct(_, _)
SpawnDistinct(contacts, recName) ==
    IF contacts = <<>> THEN <<>>
    ELSE LET rest == SpawnDistinct(Tail(contacts), recName)
         IN IF \E i \in 1..Len(rest) : rest[i].contact.Number = Head(contacts).Number
            THEN rest
            ELSE <<NewUnit(Head(contacts), recName)>> \o rest
Spawn(contacts, recName) ==
    [i \in 1..Len(contacts) |-> NewUnit(contacts[i], recName)]

(***************************************************************************)
(* The router and the playback handler.                                    *)
(***************************************************************************)
Route(path) ==
    IF path = <<"record", "voice", "answer">> THEN [handler |-> "answer", name |-> ""]
    ELSE IF path = <<"record", "voice", "event">> THEN [handler |-> "log", name |-> ""]
    ELSE IF path = <<"store", "recording", "event">> THEN [handler |-> "store", name |-> ""]
    ELSE IF path = <<"play", "recording", "event">> THEN [handler |-> "log", name |-> ""]
    ELSE IF Len(path) = 3 /\ path[1] = "play" /\ path[2] = "recording"
         THEN [handler |-> "play", name |-> path[3]]
    ELSE IF Len(path) = 2 /\ path[1] = "static" THEN [handler |-> "static", name |-> path[2]]
    ELSE [handler |-> "not found", name |-> ""]

PlayNcco(name) ==
    << [action |-> "talk", text |-> "Messaggio registrato"],
       [action |-> "stream", streamUrl |-> <<Url(Origin, <<"static", name>>)>>],
       [action |-> "talk", text |-> "Fine messaggio"] >>

PlayRecordingHandler(name) == Response(200, PlayNcco(name))

\* The requests of the event webhooks.  A body is the text that can be read
\* from it and whether reading reaches its end without an error: empty, a
\* JSON object, text that is not JSON, and a body that breaks off.
EventPaths == {<<"record", "voice", "event">>, <<"play", "recording", "event">>}
EventBodies ==
    { [readable |-> TRUE, text |-> <<>>],
      [readable |-> TRUE, text |-> <<"{", "}">>],
      [readable |-> TRUE, text |-> <<"{", "x">>],
      [readable |-> FALSE, text |-> <<"{">>] }
EventRequests == [method : {"POST", "GET"}, body : EventBodies]

\* LogEventHandler: a request that is not a POST returns at once, and the
\* server answers 200 for a handler that wrote nothing; a POST has its body
\* copied (an error is logged), what was read is logged, and the deferred
\* WriteHeader answers 200.
LogEventHandlerStrict(r) ==
    IF r.method # "POST" THEN [resp |-> Response(200, <<>>), log |-> <<>>]
    ELSE IF ~r.body.readable THEN [resp |-> Response(500, <<>>), log |-> <<>>]
    ELSE [resp |-> Response(200, <<>>), log |-> <<r.body.text>>]
LogEventHandler(r) ==
    IF r.method # "POST" THEN [resp |-> Response(200, <<>>), log |-> <<>>]
    ELSE [resp |-> Response(200, <<>>), log |-> <<r.body.text>>]

(***************************************************************************)
(* The state machine of the pipeline.                                      *)
(***************************************************************************)
\* NewLimiter is not part of the sources: a new bucket is taken to be either
\* empty or full.
NewCycle ==
    [pc |-> "idle", event |-> NoEvent, status |-> 0, trace |-> <<>>,
     got |-> "none", getErr |-> "none", getStatus |-> 0, wrote |-> "none",
     io |-> "none", path |-> <<>>, recName |-> "", broadcast |-> "none", contacts |-> <<>>]

Init ==
    /\ dirFile = [err |-> TRUE, data |-> <<>>]
    /\ decoded = NotDecoded
    /\ whitelist = [err |-> TRUE, data |-> <<>>]
    /\ answerReq = NoRequest
    /\ answerResp = NoResponse
    /\ broadcastList \in BroadcastFiles
    /\ cycles = [c \in 1..MaxCycles |-> NewCycle]
    /\ units = [c \in 1..MaxCycles |-> <<>>]
    /\ callTokens \in {0, CallRate}
    /\ getTokens \in {0, GetRate}
    /\ recs = <<>>
    /\ dirs = AllDirs
    /\ hook = NoHook

Untouched ==
    UNCHANGED <<dirFile, decoded, whitelist, answerReq, answerResp, broadcastList, hook>>

\* The handler of /store/recording/event up to its call of Client.Get.
Webhook(c, e) ==
    /\ cycles[c].pc = "idle"
    /\ \A j \in 1..(c - 1) : cycles[j].pc # "idle"
    /\ cycles' =
        [cycles EXCEPT ![c] =
            IF e.method # "POST" THEN [@ EXCEPT !.event = e, !.pc = "done", !.status = 200]
            ELSE IF ~e.valid THEN [@ EXCEPT !.event = e, !.pc = "done", !.status = 500]
            ELSE [@ EXCEPT !.event = e, !.pc = "get", !.trace = <<"get">>]]
    /\ UNCHANGED <<units, callTokens, getTokens, recs, dirs>>
    /\ Untouched

\* Client.Get: GetLimiter.Wait(context.Background()), then the request.
GetStepOnCallLimiter(c) ==
    /\ cycles[c].pc = "get"
    /\ SendsAfterWait(LimiterWait(Background, callTokens))
    /\ callTokens' = callTokens - 1
    /\ cycles' = [cycles EXCEPT ![c].pc = "downloading"]
    /\ UNCHANGED <<units, getTokens, recs, dirs>>
    /\ Untouched
GetStep(c) ==
    /\ cycles[c].pc = "get"
    /\ SendsAfterWait(LimiterWait(Background, getTokens))
    /\ getTokens' = getTokens - 1
    /\ cycles' = [cycles EXCEPT ![c].pc = "downloading"]
    /\ UNCHANGED <<units, callTokens, recs, dirs>>
    /\ Untouched

\* The download ends: on an error the handler logs and returns.
GetResponse(c, o) ==
    /\ cycles[c].pc = "downloading"
    /\ cycles' =
        [cycles EXCEPT ![c] =
            IF DoResult(o) = ErrNone
            THEN [@ EXCEPT !.got = "ok", !.getErr = ErrNone, !.getStatus = o.status,
                           !.pc = "downloaded"]
            ELSE [@ EXCEPT !.got = "failed", !.getErr = DoResult(o),
                           !.getStatus = o.status, !.pc = "done", !.status = 200]]
    /\ UNCHANGED <<units, callTokens, getTokens, recs, dirs>>
    /\ Untouched

\* The handler goes on to Client.Call only if WriteRec returned no error.
AfterWriteAlways(wrote) == "stored"
AfterWrite(wrote) == IF wrote = "ok" THEN "stored" ELSE "done"

\* What the file system does to a call of Local.WriteRec, apart from what
\* the directories present decide: nothing goes wrong, MkdirAll fails,
\* os.Create fails, io.Copy fails.
WriteOutcomes == {"ok", "mkdir failed", "create failed", "copy failed"}

\* The states of the storage root: RootDir missing, RootDir without recs,
\* both present.
DirStates == {{}, {"root"}, AllDirs}

\* Local.WriteRec: ensurePresent makes RootDir (os.MkdirAll), os.Create needs
\* the directory of its path, RootDir/recs, to be there; io.Copy then fills
\* the file.  The result has the two values returned, the directories present
\* afterwards and what became of the file.
WriteRec(present, fileName, io) ==
    IF io = "mkdir failed"
    THEN [path |-> <<>>, err |-> "local storage error", dirs |-> present, file |-> "none"]
    ELSE LET ensured == present \cup {"root"}
         IN IF "recs" \notin ensured \/ io = "create failed"
            THEN [path |-> <<>>, err |-> "local storage error: unable to create destination",
                  dirs |-> ensured, file |-> "none"]
            ELSE IF io = "copy failed"
            THEN [path |-> <<>>, err |-> "local storage error: unable to copy rec to destination",
                  dirs |-> ensured, file |-> "partial"]
            ELSE [path |-> <<"root", "recs", fileName>>, err |-> ErrNone,
                  dirs |-> ensured, file |-> "complete"]

StoreRec(c, w) ==
    /\ cycles[c].pc = "downloaded"
    /\ LET name == RecName(cycles[c].event.recording_uuid)
           r == WriteRec(dirs, name, w)
           file == [by |-> c, uuid |-> cycles[c].event.recording_uuid,
                    complete |-> (r.file = "complete")]
           wrote == IF r.err = ErrNone THEN "ok" ELSE "failed"
       IN /\ recs' = IF r.file = "none" THEN recs ELSE (name :> file) @@ recs
          /\ dirs' = r.dirs
          /\ cycles' =
                [cycles EXCEPT ![c] =
                    [@ EXCEPT !.recName = name,
                              !.trace = Append(@, "write"),
                              !.io = w,
                              !.path = r.path,
                              !.wrote = wrote,
                              !.status = IF AfterWrite(wrote) = "done" THEN 200 ELSE @,
                              !.pc = AfterWrite(wrote)]]
    /\ UNCHANGED <<units, callTokens, getTokens>>
    /\ Untouched

\* Client.Call: decode the broadcast list, then one goroutine per contact.
Broadcast(c) ==
    /\ cycles[c].pc = "stored"
    /\ LET d == DecodeContacts(ReadBroadcastList(broadcastList))
       IN /\ cycles' =
                [cycles EXCEPT ![c] =
                    [@ EXCEPT !.trace = Append(@, "call"),
                              !.contacts = d.contacts,
                              !.broadcast = IF CallProceeds(d.err) THEN "launched" ELSE "aborted",
                              !.status = 200,
                              !.pc = "done"]]
          /\ units' =
                [units EXCEPT ![c] =
                    IF CallProceeds(d.err) THEN Spawn(d.contacts, cycles[c].recName) ELSE <<>>]
    /\ UNCHANGED <<callTokens, getTokens, recs, dirs>>
    /\ Untouched

\* What Post does with the outcome of CallLimiter.Wait.
AfterWait(u, wait) ==
    IF SendsAfterWait(wait)
    THEN [u EXCEPT !.pc = "http", !.sent = @ + 1,
                   !.granted = IF wait = "granted" THEN @ + 1 ELSE @,
                   !.payload = <<CallPayload(u.contact, u.recName)>>]
    ELSE IF wait = "error" THEN [u EXCEPT !.pc = "done", !.left = 0, !.result = ErrLimiter]
    ELSE [u EXCEPT !.pc = "wait"]

\* The goroutine runs up to CallLimiter.Wait: it creates its context with its
\* timeout, encodes the payload (Client.call) and enters Client.Post.
UnitRun(c, i) ==
    /\ units[c][i].pc = "spawned"
    /\ LET left == Deadline(Len(cycles[c].contacts))
           wait == LimiterWait(left, callTokens)
       IN /\ units' = [units EXCEPT ![c][i] =
                AfterWait([@ EXCEPT !.deadline = left, !.left = left, !.posts = @ + 1], wait)]
          /\ callTokens' = IF wait = "granted" THEN callTokens - 1 ELSE callTokens
    /\ UNCHANGED <<cycles, getTokens, recs, dirs>>
    /\ Untouched

\* A unit blocked in CallLimiter.Wait gets a token, or its context expires.
UnitWake(c, i) ==
    /\ units[c][i].pc = "wait"
    /\ LET wait == LimiterWait(units[c][i].left, callTokens)
       IN /\ wait # "blocked"
          /\ units' = [units EXCEPT ![c][i] = AfterWait(@, wait)]
          /\ callTokens' = IF wait = "granted" THEN callTokens - 1 ELSE callTokens
    /\ UNCHANGED <<cycles, getTokens, recs, dirs>>
    /\ Untouched

\* The request of Client.Do ends; nothing bounds how long it takes.
UnitResponse(c, i, o) ==
    /\ units[c][i].pc = "http"
    /\ units' = [units EXCEPT ![c][i].pc = "done", ![c][i].left = 0,
                              ![c][i].result = DoResult(o),
                              ![c][i].status = o.status]
    /\ UNCHANGED <<cycles, callTokens, getTokens, recs, dirs>>
    /\ Untouched

\* The platform answers a placed call: it asks the answer URL for its
\* instructions and fetches the stream URL they name.
Playback(c, i) ==
    /\ units[c][i].pc = "done"
    /\ units[c][i].result = ErrNone
    /\ units[c][i].played = <<>>
    /\ LET answer == Route(units[c][i].payload[1].answer_url[1].path)
           ncco == PlayRecordingHandler(answer.name).body
           static == Route(ncco[2].streamUrl[1].path)
       IN /\ answer.handler = "play"
          /\ static.handler = "static"
          /\ units' = [units EXCEPT ![c][i].played =
                <<[url |-> ncco[2].streamUrl[1],
                   file |-> IF static.name \in DOMAIN recs THEN <<recs[static.name]>> ELSE <<>>]>>]
    /\ UNCHANGED <<cycles, callTokens, getTokens, recs, dirs>>
    /\ Untouched

Live(u) == u.pc \in {"wait", "http"}

\* One second passes: the limiters are refilled and the contexts age.  A unit
\* in Wait whose context has expired returns before the next second.
Tick ==
    /\ \A c \in Cycles : \A i \in 1..Len(units[c]) :
          units[c][i].pc = "wait" => units[c][i].left > 0
    /\ \/ callTokens < CallRate
       \/ getTokens < GetRate
       \/ \E c \in Cycles : \E i \in 1..Len(units[c]) :
             Live(units[c][i]) /\ units[c][i].left > -1
    /\ callTokens' = CallRate
    /\ getTokens' = GetRate
    /\ units' = [c \in Cycles |->
                    [i \in 1..Len(units[c]) |->
                        IF Live(units[c][i]) /\ units[c][i].left > -1
                        THEN [units[c][i] EXCEPT !.left = @ - 1]
                        ELSE units[c][i]]]
    /\ UNCHANGED <<cycles, recs, dirs>>
    /\ Untouched

(***************************************************************************)
(* The voicebrd daemon (cmd/voicebrd): the handlers Answer and Event of    *)
(* its VoiceWebhook.                                                       *)
(***************************************************************************)
\* The bodies sent to the daemon: empty, an object, text that is not JSON, an
\* array, a number, and an object that breaks off while it is read.
DaemonBodies ==
    { [readable |-> TRUE, text |-> <<>>],
      [readable |-> TRUE, text |-> <<"{", "}">>],
      [readable |-> TRUE, text |-> <<"{", "x">>],
      [readable |-> TRUE, text |-> <<"[", "]">>],
      [readable |-> TRUE, text |-> <<"7">>],
      [readable |-> FALSE, text |-> <<"{">>] }

\* A request, with whether the response can be written (Encode returns the
\* error of Write), which only a request that decodes finds out.
DaemonRequests ==
    {r \in [method : {"POST"}, body : DaemonBodies, writable : BOOLEAN] :
        r.writable \/ (r.body.readable /\ r.body.text = <<"{", "}">>)}

\* What JSON value a text is, for the texts above: the empty object, the
\* empty array, a digit; anything else is not JSON.
JsonKind(text) ==
    IF text = <<>> THEN "invalid"
    ELSE IF text = <<"{", "}">> THEN "object"
    ELSE IF text = <<"[", "]">> THEN "array"
    ELSE IF Len(text) = 1 /\ text[1] \in {"0", "1", "2", "3", "4", "5", "6", "7", "8", "9"}
         THEN "number"
    ELSE "invalid"

\* json.Unmarshal into a struct: a syntax error for text that is not JSON, a
\* type error for a JSON value that is not an object.
UnmarshalError(text) ==
    IF JsonKind(text) = "invalid" THEN "syntax error"
    ELSE IF JsonKind(text) # "object" THEN "type error"
    ELSE ErrNone

\* An error as returnAnswer and returnEvent return it: code is the Code of an
\* *httpError, 0 for any other error.
NoError == [err |-> ErrNone, code |-> 0]

\* Error: 500 unless the error is an *httpError, whose Code is sent.
ErrorAlways500(e) == 500
ErrorStatus(e) == IF e.code # 0 THEN e.code ELSE 500

returnAnswer(r) ==
    IF ~r.body.readable THEN [err |-> "answer request: read", code |-> 0]
    ELSE IF UnmarshalError(r.body.text) # ErrNone
    THEN [err |-> "answer request: " \o UnmarshalError(r.body.text), code |-> 400]
    ELSE IF ~r.writable THEN [err |-> "answer response: write", code |-> 0]
    ELSE NoError

returnEvent(r) ==
    IF ~r.body.readable THEN [err |-> "event request: read", code |-> 0]
    ELSE IF UnmarshalError(r.body.text) # ErrNone
    THEN [err |-> "event request: " \o UnmarshalError(r.body.text), code |-> 400]
    ELSE NoError

TalkNcco == << [action |-> "talk", text |-> "Hi from Jecoz"] >>

\* Answer: the response is the encoded ncco, with the 200 that the first
\* Write sends, or what Error writes.  When Encode fails in Write the header
\* has gone out with 200 and Error's status is dropped.
AnswerHandler(r) ==
    LET e == returnAnswer(r)
    IN IF e = NoError THEN Response(200, TalkNcco)
       ELSE IF e.err = "answer response: write" THEN Response(200, <<>>)
       ELSE Response(ErrorStatus(e), <<e.err>>)

\* Event: WriteHeader(200), or what Error writes.
EventHandler(r) ==
    LET e == returnEvent(r)
    IN IF e = NoError THEN Response(200, <<>>)
       ELSE Response(ErrorStatus(e), <<e.err>>)

DaemonPaths == {<<"answer">>, <<"event">>}

DaemonRequest(path, r) ==
    /\ hook = NoHook
    /\ path \in DaemonPaths
    /\ hook' = [path |-> path, method |-> r.method, body |-> r.body,
                resp |-> IF path = <<"answer">> THEN AnswerHandler(r) ELSE EventHandler(r),
                log |-> <<r.writable>>]
    /\ UNCHANGED <<dirFile, decoded, whitelist, answerReq, answerResp, broadcastList,
                   cycles, units, callTokens, getTokens, recs, dirs>>

\* A request to one of the two event routes is served by LogEventHandler.
LogEvent(path, r) ==
    /\ hook = NoHook
    /\ Route(path).handler = "log"
    /\ hook' = [path |-> path, method |-> r.method, body |-> r.body,
                resp |-> LogEventHandler(r).resp, log |-> LogEventHandler(r).log]
    /\ UNCHANGED <<dirFile, decoded, whitelist, answerReq, answerResp, broadcastList,
                   cycles, units, callTokens, getTokens, recs, dirs>>

\* The response has been sent.
HookDone ==
    /\ hook # NoHook
    /\ hook' = NoHook
    /\ UNCHANGED <<dirFile, decoded, whitelist, answerReq, answerResp, broadcastList,
                   cycles, units, callTokens, getTokens, recs, dirs>>

Next ==
    \/ \E c \in Cycles : \E e \in Events : Webhook(c, e)
    \/ \E c \in Cycles : GetStep(c)
    \/ \E c \in Cycles : \E o \in PipelineOutcomes : GetResponse(c, o)
    \/ \E c \in Cycles : \E w \in WriteOutcomes : StoreRec(c, w)
    \/ \E c \in Cycles : Broadcast(c)
    \/ \E c \in Cycles : \E i \in 1..Len(units[c]) : UnitRun(c, i)
    \/ \E c \in Cycles : \E i \in 1..Len(units[c]) : UnitWake(c, i)
    \/ \E c \in Cycles : \E i \in 1..Len(units[c]) : \E o \in PipelineOutcomes : UnitResponse(c, i, o)
    \/ \E c \in Cycles : \E i \in 1..Len(units[c]) : Playback(c, i)
    \/ Tick

Spec == Init /\ [][Next]_vars

(***************************************************************************)
(* CallSpec: one broadcast in detail.  It starts where the handler is      *)
(* about to call Client.Call for the recording it has stored; the call     *)
(* limiter, which the server shares with its earlier broadcasts, holds any *)
(* number of tokens.                                                       *)
(***************************************************************************)
\* A cycle whose handler has stored the recording A and is about to call
\* Client.Call.
StoredCycle ==
    [NewCycle EXCEPT
        !.pc = "stored",
        !.event = [method |-> "POST", valid |-> TRUE, recording_uuid |-> "A"],
        !.trace = <<"get", "write">>,
        !.got = "ok",
        !.getErr = ErrNone,
        !.getStatus = 200,
        !.wrote = "ok",
        !.io = "ok",
        !.path = <<"root", "recs", RecName("A")>>,
        !.recName = RecName("A")]

CallInit ==
    /\ dirFile = [err |-> TRUE, data |-> <<>>]
    /\ decoded = NotDecoded
    /\ whitelist = [err |-> TRUE, data |-> <<>>]
    /\ answerReq = NoRequest
    /\ answerResp = NoResponse
    /\ broadcastList \in CallFiles
    /\ cycles = <<StoredCycle>>
    /\ units = << <<>> >>
    /\ callTokens \in 0..CallRate
    /\ getTokens = GetRate
    /\ recs = (RecName("A") :> [by |-> 1, uuid |-> "A", complete |-> TRUE])
    /\ dirs = AllDirs
    /\ hook = NoHook

CallNext ==
    \/ \E c \in Cycles : Broadcast(c)
    \/ \E c \in Cycles : \E i \in 1..Len(units[c]) : UnitRun(c, i)
    \/ \E c \in Cycles : \E i \in 1..Len(units[c]) : UnitWake(c, i)
    \/ \E c \in Cycles : \E i \in 1..Len(units[c]) : \E o \in PipelineOutcomes : UnitResponse(c, i, o)
    \/ Tick

CallSpec == CallInit /\ [][CallNext]_vars

(***************************************************************************)
(* FairSpec: one broadcast on a call limiter that nothing else uses, so    *)
(* that it is full when the broadcast starts, and that serves its waiters  *)
(* first come first served, as soon as it has a token.                     *)
(***************************************************************************)
Waiting(u) == u.pc = "wait" /\ u.left > 0

\* A token is there for a unit that waits for one.
GrantPending ==
    /\ callTokens > 0
    /\ \E c \in Cycles : \E i \in 1..Len(units[c]) : Waiting(units[c][i])

\* No unit that waits came before unit i of cycle c: the units of a broadcast
\* have the same timeout, so the one that came first has the least time left.
FirstCome(c, i) ==
    \A d \in Cycles : \A j \in 1..Len(units[d]) :
        Waiting(units[d][j]) => units[c][i].left <= units[d][j].left

FairInit ==
    /\ dirFile = [err |-> TRUE, data |-> <<>>]
    /\ decoded = NotDecoded
    /\ whitelist = [err |-> TRUE, data |-> <<>>]
    /\ answerReq = NoRequest
    /\ answerResp = NoResponse
    /\ broadcastList \in CallFiles
    /\ cycles = <<StoredCycle>>
    /\ units = << <<>> >>
    /\ callTokens = CallRate
    /\ getTokens = GetRate
    /\ recs = (RecName("A") :> [by |-> 1, uuid |-> "A", complete |-> TRUE])
    /\ dirs = AllDirs
    /\ hook = NoHook

FairNext ==
    \/ \E c \in Cycles : Broadcast(c)
    \/ \E c \in Cycles : \E i \in 1..Len(units[c]) : ~GrantPending /\ UnitRun(c, i)
    \/ \E c \in Cycles : \E i \in 1..Len(units[c]) : FirstCome(c, i) /\ UnitWake(c, i)
    \/ \E c \in Cycles : \E i \in 1..Len(units[c]) : \E o \in PipelineOutcomes : UnitResponse(c, i, o)
    \/ ~GrantPending /\ Tick

FairSpec == FairInit /\ [][FairNext]_vars

(***************************************************************************)
(* BatchSpec: Client.Call on the larger lists, up to the point where each  *)
(* goroutine has created its context and entered Client.Post.              *)
(***************************************************************************)
BatchInit ==
    /\ dirFile = [err |-> TRUE, data |-> <<>>]
    /\ decoded = NotDecoded
    /\ whitelist = [err |-> TRUE, data |-> <<>>]
    /\ answerReq = NoRequest
    /\ answerResp = NoResponse
    /\ broadcastList \in BatchFiles
    /\ cycles = <<StoredCycle>>
    /\ units = << <<>> >>
    /\ callTokens \in {0, CallRate}
    /\ getTokens = GetRate
    /\ recs = (RecName("A") :> [by |-> 1, uuid |-> "A", complete |-> TRUE])
    /\ dirs = AllDirs
    /\ hook = NoHook

BatchNext ==
    \/ \E c \in Cycles : Broadcast(c)
    \/ \E c \in Cycles : \E i \in 1..Len(units[c]) : UnitRun(c, i)

BatchSpec == BatchInit /\ [][BatchNext]_vars

(***************************************************************************)
(* DoSpec: one cycle whose broadcast list has two contacts, with every     *)
(* outcome of the HTTP exchanges of Client.Get and Client.Post.            *)
(***************************************************************************)
DoInit ==
    /\ dirFile = [err |-> TRUE, data |-> <<>>]
    /\ decoded = NotDecoded
    /\ whitelist = [err |-> TRUE, data |-> <<>>]
    /\ answerReq = NoRequest
    /\ answerResp = NoResponse
    /\ broadcastList = [err |-> FALSE, data |-> << <<"1", ",", "a">>, <<"2", ",", "b">> >>]
    /\ cycles = <<NewCycle>>
    /\ units = << <<>> >>
    /\ callTokens \in {0, CallRate}
    /\ getTokens \in {0, GetRate}
    /\ recs = <<>>
    /\ dirs = AllDirs
    /\ hook = NoHook

DoNext ==
    \/ \E c \in Cycles : \E e \in Events : Webhook(c, e)
    \/ \E c \in Cycles : GetStep(c)
    \/ \E c \in Cycles : \E o \in HttpOutcomes : GetResponse(c, o)
    \/ \E c \in Cycles : \E w \in WriteOutcomes : StoreRec(c, w)
    \/ \E c \in Cycles : Broadcast(c)
    \/ \E c \in Cycles : \E i \in 1..Len(units[c]) : UnitRun(c, i)
    \/ \E c \in Cycles : \E i \in 1..Len(units[c]) : UnitWake(c, i)
    \/ \E c \in Cycles : \E i \in 1..Len(units[c]) : \E o \in HttpOutcomes : UnitResponse(c, i, o)
    \/ \E c \in Cycles : \E i \in 1..Len(units[c]) : Playback(c, i)
    \/ Tick

DoSpec == DoInit /\ [][DoNext]_vars

(***************************************************************************)
(* EventSpec: the event webhooks served while one cycle runs.              *)
(***************************************************************************)
EventNext ==
    \/ \E path \in EventPaths : \E r \in EventRequests : LogEvent(path, r)
    \/ HookDone
    \/ \E c \in Cycles : \E e \in Events : Webhook(c, e)
    \/ \E c \in Cycles : GetStep(c)
    \/ \E c \in Cycles : \E o \in PipelineOutcomes : GetResponse(c, o)
    \/ \E c \in Cycles : \E w \in WriteOutcomes : StoreRec(c, w)
    \/ \E c \in Cycles : Broadcast(c)
    \/ \E c \in Cycles : \E i \in 1..Len(units[c]) : UnitRun(c, i)
    \/ \E c \in Cycles : \E i \in 1..Len(units[c]) : UnitWake(c, i)
    \/ \E c \in Cycles : \E i \in 1..Len(units[c]) : \E o \in PipelineOutcomes : UnitResponse(c, i, o)
    \/ \E c \in Cycles : \E i \in 1..Len(units[c]) : Playback(c, i)
    \/ Tick

EventSpec == DoInit /\ [][EventNext]_vars

(***************************************************************************)
(* FreshSpec: the two directories are edited, a row at a time, between the *)
(* answer requests and the broadcasts of the recordings already stored.    *)
(***************************************************************************)
EditRows == {<<"1", ",", "a">>, <<"2", ",", "b">>}
BroadcastRows == {<<"2", ",", "b">>}

RemoveAt(s, i) == SubSeq(s, 1, i - 1) \o SubSeq(s, i + 1, Len(s))

\* The files one edit away: a row appended, or a row removed.
Edits(file, rows) ==
    {[file EXCEPT !.data = Append(@, row)] : row \in {r \in rows : Len(file.data) < MaxLines}}
        \cup {[file EXCEPT !.data = RemoveAt(@, i)] : i \in 1..Len(file.data)}

FreshRequests ==
    { [method |-> "GET", body |-> [valid |-> FALSE, obj |-> <<>>], query |-> [from |-> <<"1">>]],
      [method |-> "GET", body |-> [valid |-> FALSE, obj |-> <<>>], query |-> [from |-> <<"2">>]],
      [method |-> "POST", body |-> [valid |-> TRUE, obj |-> [from |-> <<"1">>]], query |-> <<>>],
      [method |-> "POST", body |-> [valid |-> TRUE, obj |-> [from |-> <<"9">>]], query |-> <<>>] }

FreshInit ==
    /\ dirFile = [err |-> TRUE, data |-> <<>>]
    /\ decoded = NotDecoded
    /\ whitelist = WhitelistAtStart
    /\ answerReq = NoRequest
    /\ answerResp = NoResponse
    /\ broadcastList = BroadcastListAtStart
    /\ cycles = [c \in 1..MaxCycles |-> StoredCycle]
    /\ units = [c \in 1..MaxCycles |-> <<>>]
    /\ callTokens = CallRate
    /\ getTokens = GetRate
    /\ recs = (RecName("A") :> [by |-> 1, uuid |-> "A", complete |-> TRUE])
    /\ dirs = AllDirs
    /\ hook = NoHook

\* The whitelist file is edited; a request reads the file once, so the edit
\* comes before or after it.
EditWhitelist ==
    /\ answerResp = NoResponse
    /\ whitelist' \in Edits(whitelist, EditRows)
    /\ UNCHANGED <<dirFile, decoded, answerReq, answerResp, broadcastList,
                   cycles, units, callTokens, getTokens, recs, dirs, hook>>

EditBroadcastList ==
    /\ broadcastList' \in Edits(broadcastList, BroadcastRows)
    /\ UNCHANGED <<dirFile, decoded, whitelist, answerReq, answerResp,
                   cycles, units, callTokens, getTokens, recs, dirs, hook>>

FreshNext ==
    \/ EditWhitelist
    \/ EditBroadcastList
    \/ AnswerOf(FreshRequests)
    \/ AnswerDone
    \/ \E c \in Cycles : Broadcast(c)

FreshSpec == FreshInit /\ [][FreshNext]_vars

(***************************************************************************)
(* StoreSpec: one cycle, from every state of the storage root.             *)
(***************************************************************************)
StoreInit ==
    /\ dirFile = [err |-> TRUE, data |-> <<>>]
    /\ decoded = NotDecoded
    /\ whitelist = [err |-> TRUE, data |-> <<>>]
    /\ answerReq = NoRequest
    /\ answerResp = NoResponse
    /\ broadcastList = [err |-> FALSE, data |-> << <<"1", ",", "a">>, <<"2", ",", "b">> >>]
    /\ cycles = <<NewCycle>>
    /\ units = << <<>> >>
    /\ callTokens \in {0, CallRate}
    /\ getTokens \in {0, GetRate}
    /\ recs = <<>>
    /\ dirs \in DirStates
    /\ hook = NoHook

StoreSpec == StoreInit /\ [][Next]_vars

(***************************************************************************)
(* HookSpec: the handlers that decode a JSON body, the recording-stored    *)
(* handler of the router up to its call of Client.Call and the two         *)
(* handlers of the daemon, request after request.                          *)
(***************************************************************************)
HookInit ==
    /\ dirFile = [err |-> TRUE, data |-> <<>>]
    /\ decoded = NotDecoded
    /\ whitelist = [err |-> TRUE, data |-> <<>>]
    /\ answerReq = NoRequest
    /\ answerResp = NoResponse
    /\ broadcastList = BroadcastListAtStart
    /\ cycles = [c \in 1..MaxCycles |-> NewCycle]
    /\ units = [c \in 1..MaxCycles |-> <<>>]
    /\ callTokens = CallRate
    /\ getTokens \in {0, GetRate}
    /\ recs = <<>>
    /\ dirs = AllDirs
    /\ hook = NoHook

HookNext ==
    \/ \E path \in DaemonPaths : \E r \in DaemonRequests : DaemonRequest(path, r)
    \/ HookDone
    \/ \E c \in Cycles : \E e \in Events : Webhook(c, e)
    \/ \E c \in Cycles : GetStep(c)
    \/ \E c \in Cycles : \E o \in PipelineOutcomes : GetResponse(c, o)
    \/ \E c \in Cycles : \E w \in WriteOutcomes : StoreRec(c, w)
    \/ \E c \in Cycles : Broadcast(c)
    \/ Tick

HookSpec == HookInit /\ [][HookNext]_vars

(***************************************************************************)
(* Properties of the pipeline.                                             *)
(***************************************************************************)
UnitIds == UNION {{<<c, i>> : i \in 1..Len(units[c])} : c \in Cycles}
Unit(id) == units[id[1]][id[2]]
Failed(u) == u.pc = "done" /\ u.result # ErrNone
Succeeded(u) == u.pc = "done" /\ u.result = ErrNone
CallInvoked(c) == Len(cycles[c].trace) = 3
Uuid(c) == cycles[c].event.recording_uuid

\* The units of every broadcast that went ahead are the decoded contacts, one
\* unit per list entry in order, and no unit enters Post twice.
UnitsMatchContacts ==
    \A c \in Cycles :
        cycles[c].broadcast = "launched" =>
            /\ Len(units[c]) = Len(DecodeContacts(broadcastList).contacts)
            /\ \A i \in 1..Len(units[c]) :
                  /\ units[c][i].contact = DecodeContacts(broadcastList).contacts[i]
                  /\ units[c][i].posts = (IF units[c][i].pc = "spawned" THEN 0 ELSE 1)
                  /\ units[c][i].sent <= 1

\* A unit that has not ended can take a step of its own, or waits with a live
\* context for a token of the empty bucket, which the next second brings (a
\* second that comes once the units whose context has expired have returned).
NoUnitStuck ==
    \A id \in UnitIds :
        Unit(id).pc # "done" =>
            \/ ENABLED UnitRun(id[1], id[2])
            \/ ENABLED UnitWake(id[1], id[2])
            \/ ENABLED (\E o \in HttpOutcomes : UnitResponse(id[1], id[2], o))
            \/ /\ Unit(id).pc = "wait"
               /\ Unit(id).left > 0
               /\ callTokens = 0
               /\ \/ ENABLED Tick
                  \/ \E other \in UnitIds :
                        /\ Unit(other).pc = "wait"
                        /\ Unit(other).left <= 0
                        /\ ENABLED UnitWake(other[1], other[2])

\* The step in which a unit fails changes no other unit.
FailureIsLocal ==
    \A id \in UnitIds :
        (~Failed(Unit(id)) /\ Failed(units'[id[1]][id[2]]))
            => \A other \in UnitIds \ {id} : units'[other[1]][other[2]] = Unit(other)

\* C3: a broadcast list that decodes to N contacts gets exactly N call units,
\* one per list entry (duplicated numbers included), each entering Post once;
\* the failure of a unit changes no other unit and leaves every other unit
\* able to go on.
C3_IndependentUnits ==
    /\ [](UnitsMatchContacts /\ NoUnitStuck)
    /\ [][FailureIsLocal]_vars

\* C3 witness: a broadcast to two entries with the same number, where one
\* unit has failed and the other has placed its call.
C3_Witness ==
    \E c \in Cycles :
        /\ Len(units[c]) = 2
        /\ units[c][1].contact.Number = units[c][2].contact.Number
        /\ Failed(units[c][1])
        /\ Succeeded(units[c][2])

IsPrefix(s, t) == Len(s) <= Len(t) /\ s = SubSeq(t, 1, Len(s))

\* C4: download, persist and broadcast run in this order, each at most once;
\* the broadcast runs only after both others succeeded, so every call unit's
\* recording is in storage; a failed download or a failed write ends the cycle
\* with no broadcast.
C4_CycleOrder ==
    \A c \in Cycles :
        /\ IsPrefix(cycles[c].trace, <<"get", "write", "call">>)
        /\ cycles[c].event.method = "POST" \/ cycles[c].trace = <<>>
        /\ CallInvoked(c) =>
              /\ cycles[c].got = "ok"
              /\ cycles[c].wrote = "ok"
              /\ cycles[c].recName \in DOMAIN recs
        /\ (cycles[c].got = "failed" \/ cycles[c].wrote = "failed") =>
              /\ cycles[c].pc = "done"
              /\ ~CallInvoked(c)
              /\ cycles[c].broadcast = "none"
              /\ units[c] = <<>>
        /\ \A i \in 1..Len(units[c]) :
              /\ CallInvoked(c)
              /\ units[c][i].recName \in DOMAIN recs

\* C4 witness: one cycle has placed a call for its stored recording while
\* another has ended on a failed write.
C4_Witness ==
    \E c, d \in Cycles :
        /\ CallInvoked(c)
        /\ cycles[c].recName \in DOMAIN recs
        /\ \E i \in 1..Len(units[c]) : units[c][i].sent = 1
        /\ cycles[d].wrote = "failed"
        /\ cycles[d].pc = "done"

\* C5 (as stated): the deadline bounds the whole Post, so a unit is never
\* still blocked, in the limiter or in the HTTP request, once its deadline
\* has passed.
C5_DeadlineBoundsPost ==
    \A id \in UnitIds : Live(Unit(id)) => Unit(id).left >= 0

\* A unit whose context has expired in Wait is granted nothing and sends
\* nothing: its next step ends it with the limiter's error.
ExpiredGetsNothing ==
    \A id \in UnitIds :
        (Unit(id).pc = "wait" /\ Unit(id).left <= 0 /\ units'[id[1]][id[2]] # Unit(id))
            => /\ units'[id[1]][id[2]].pc = "done"
               /\ units'[id[1]][id[2]].result = ErrLimiter
               /\ units'[id[1]][id[2]].granted = 0
               /\ units'[id[1]][id[2]].sent = 0
               /\ units'[id[1]][id[2]].payload = <<>>
               /\ callTokens' = callTokens

LimiterErrorSendsNothing ==
    \A id \in UnitIds :
        /\ Unit(id).sent <= Unit(id).granted
        /\ Unit(id).result = ErrLimiter =>
              Unit(id).granted = 0 /\ Unit(id).sent = 0 /\ Unit(id).payload = <<>>

Mp3Name(c) == Uuid(c) \o ".mp3"

C9_DecodePolicy ==
    \A c \in Cycles :
        CallInvoked(c) =>
            LET d == DecodeContacts(broadcastList)
            IN /\ d.err \in {ErrRead, ErrParse} =>
                    cycles[c].broadcast = "aborted" /\ units[c] = <<>>
               /\ d.err = ErrCorruptedContacts =>
                    /\ cycles[c].broadcast = "launched"
                    /\ Len(units[c]) = Len(d.contacts)
                    /\ \A i \in 1..Len(units[c]) : units[c][i].contact = d.contacts[i]

\* C9 witness: Client.Call went ahead on a list decoded with the partial error.
C9_Witness ==
    \E c \in Cycles :
        /\ CallInvoked(c)
        /\ DecodeContacts(broadcastList).err = ErrCorruptedContacts
        /\ cycles[c].broadcast = "launched"

\* What Client.Do returns for a response, by the claim: no error for the
\* statuses 200 and 201, the request-failed error with the status text for
\* every other status.
DoReturns(err, status) ==
    IF status \in {200, 201} THEN err = ErrNone
    ELSE err = "request failed: " \o StatusText(status)

\* The request of a unit has ended with a response (not a transport error).
Responded(u) == u.pc = "done" /\ u.status # 0

DoClassifies ==
    /\ \A c \in Cycles : cycles[c].getStatus # 0 =>
          /\ DoReturns(cycles[c].getErr, cycles[c].getStatus)
          /\ cycles[c].got = (IF cycles[c].getStatus \in {200, 201} THEN "ok" ELSE "failed")
    /\ \A id \in UnitIds : Responded(Unit(id)) =>
          /\ DoReturns(Unit(id).result, Unit(id).status)
          /\ Failed(Unit(id)) <=> Unit(id).status \notin {200, 201}

\* C11: Get and Post return no error exactly for a response of status 200 or
\* 201; for every other status, 2xx or not, they return the request-failed
\* error with the status text; a unit that ends on that error changes no other
\* unit, and the other units can still go on.
C11_StatusClassified ==
    /\ [](DoClassifies /\ NoUnitStuck)
    /\ [][FailureIsLocal]_vars

\* C11 witness: the download was answered 201; one unit was answered 202 and
\* ended on the request-failed error, after which the other unit was answered
\* 200 and placed its call.
C11_Witness ==
    \E c \in Cycles :
        /\ cycles[c].getStatus = 201
        /\ Len(units[c]) = 2
        /\ units[c][1].status = 202
        /\ units[c][1].result = "request failed: 202 Accepted"
        /\ units[c][2].status = 200
        /\ Succeeded(units[c][2])

Max(a, b) == IF a >= b THEN a ELSE b

\* The number of seconds the claim gives every unit of a broadcast of n
\* contacts, from the capacity of CallLimiter.
ClaimedDeadline(n) == Max(1, n \div CallRate) * 2

\* C12: in a broadcast of N decoded contacts every unit creates its context
\* with the same timeout, max(1, floor(N / capacity of CallLimiter)) * 2
\* seconds, which is at least 2.
C12_PerCallDeadline ==
    \A c \in Cycles :
        cycles[c].broadcast = "launched" =>
            LET n == Len(DecodeContacts(broadcastList).contacts)
            IN /\ Len(units[c]) = n
               /\ \A i \in 1..n :
                    units[c][i].pc # "spawned" =>
                        /\ units[c][i].deadline = ClaimedDeadline(n)
                        /\ units[c][i].deadline >= 2
                        /\ \A j \in 1..n :
                              units[c][j].pc # "spawned" =>
                                  units[c][j].deadline = units[c][i].deadline

\* C12 witness: broadcasts where N / 3 is below one, is not whole, and is
\* three have run all their units: a unit of a broadcast of 8 has 4 seconds.
C12_Witness ==
    \E c \in Cycles :
        /\ Len(units[c]) = 8
        /\ \A i \in 1..8 : units[c][i].pc # "spawned" /\ units[c][i].deadline = 4

\* The state of the pipeline: the cycles and their units, the stored files
\* and directories, the limiters.
pipeline == <<cycles, units, recs, dirs, callTokens, getTokens>>

EventAnswered200 ==
    hook # NoHook =>
        /\ Route(hook.path).handler = "log"
        /\ hook.resp.status = 200
        /\ hook.method = "POST" => hook.log = <<hook.body.text>>

\* The step that serves an event changes nothing of the pipeline.
EventLeavesPipeline == hook' # hook => pipeline' = pipeline

\* C13: a request to /record/voice/event or /play/recording/event is answered
\* 200 whatever its body (empty, JSON, not JSON, unreadable); serving it
\* starts no download, store or broadcast and changes no cycle or unit.
C13_EventsOnlyLogged ==
    /\ []EventAnswered200
    /\ [][EventLeavesPipeline]_vars

\* C13 witness: a POST whose body could not be read to its end was answered
\* 200 on /play/recording/event while a unit of the cycle was in its request.
C13_Witness ==
    /\ hook.path = <<"play", "recording", "event">>
    /\ hook.method = "POST"
    /\ ~hook.body.readable
    /\ hook.resp.status = 200
    /\ \E id \in UnitIds : Unit(id).pc = "http"

\* An answer request is decided by the whitelist as it is now.
AnswerIsFresh ==
    (Served /\ WellFormedBody(answerReq) /\ Identity(answerReq) # <<>>
        /\ CleanWhitelist(whitelist))
        => IF Identity(answerReq) \in NumbersOf(whitelist)
           THEN /\ answerResp.status = 200
                /\ answerResp.body = RecordNcco(LastNameOf(whitelist, Identity(answerReq)))
           ELSE answerResp = Response(401, <<>>)

\* The step that starts a broadcast takes its contacts, and one unit for each,
\* from the rows the broadcast list has in that step.
BroadcastIsFresh ==
    \A c \in Cycles :
        (cycles[c].broadcast = "none" /\ cycles'[c].broadcast # "none")
            => /\ cycles'[c].broadcast = "launched"
               /\ cycles'[c].contacts = ContactsOf(DataRows(broadcastList.data))
               /\ Len(units'[c]) = Len(DataRows(broadcastList.data))
               /\ \A i \in 1..Len(units'[c]) :
                     units'[c][i].contact = cycles'[c].contacts[i]

\* C14: every answer request is decided by the whitelist as it is when the
\* request is served, whatever it was before and whatever was answered
\* before, and every broadcast calls the rows the broadcast list has when
\* Client.Call starts.
C14_DirectoriesFresh ==
    /\ []AnswerIsFresh
    /\ [][BroadcastIsFresh]_vars

\* C14 witness: number 1, absent from the whitelist at the start, has been
\* added and its request accepted while number 2, present at the start, has
\* been removed; two broadcasts, one before and one after an edit of the
\* broadcast list, have called different lists.
C14_Witness ==
    /\ <<"1">> \notin NumbersOf(WhitelistAtStart)
    /\ <<"1">> \in NumbersOf(whitelist)
    /\ <<"2">> \notin NumbersOf(whitelist)
    /\ Identity(answerReq) = <<"1">>
    /\ answerResp.status = 200
    /\ \E c, d \in Cycles :
          /\ cycles[c].broadcast = "launched"
          /\ cycles[d].broadcast = "launched"
          /\ Len(cycles[c].contacts) = 1
          /\ Len(cycles[d].contacts) = 2

\* What the platform reads from a JSON string: the text between the quotes,
\* with its escapes undone.
RECURSIVE JsonUnescape(_)
JsonUnescape(t) ==
    IF t = <<>> THEN <<>>
    ELSE IF Head(t) # "\\" THEN <<Head(t)>> \o JsonUnescape(Tail(t))
    ELSE IF t[2] = "u" THEN <<"&">> \o JsonUnescape(SubSeq(t, 7, Len(t)))
    ELSE <<t[2]>> \o JsonUnescape(SubSeq(t, 3, Len(t)))

JsonParseString(t) == JsonUnescape(SubSeq(t, 2, Len(t) - 1))

\* C15: the payload a unit posts has one recipient, with the members type and
\* number only: "phone" and the number of the unit's row of the broadcast
\* list; its sender is "phone" with the client's number; its answer URL is
\* origin/play/recording/<recording name> and its event URL
\* origin/play/recording/event.
C15_CallPayload ==
    \A id \in UnitIds :
        Unit(id).payload # <<>> =>
            LET p == Unit(id).payload[1]
                row == DataRows(broadcastList.data)[id[2]]
            IN /\ Len(p.to) = 1
               /\ DOMAIN p.to[1] = {"type", "number"}
               /\ p.to[1].type = "phone"
               /\ p.to[1].type = NewContact(row[1], row[2]).Type
               /\ JsonParseString(p.to[1].number) = row[1]
               /\ DOMAIN p.from = {"type", "number"}
               /\ p.from.type = "phone"
               /\ JsonParseString(p.from.number) = ClientNumber
               /\ p.answer_url = <<Url(Origin, <<"play", "recording", cycles[id[1]].recName>>)>>
               /\ p.event_url = <<Url(Origin, <<"play", "recording", "event">>)>>

\* C15 witness: the units of the rows "1,a" and "2&,b" have posted their
\* payloads.
C15_Witness ==
    \E c \in Cycles :
        /\ Len(units[c]) >= 3
        /\ units[c][1].contact.Name = <<"a">>
        /\ units[c][1].payload # <<>>
        /\ units[c][3].contact.Number = <<"2", "&">>
        /\ units[c][3].payload # <<>>
        /\ units[c][3].payload[1].to[1].number # <<"\"", "2", "&", "\"">>

\* The handler of cycle c has called WriteRec.
WriteRecCalled(c) == Len(cycles[c].trace) >= 2

\* C16 (as stated): whatever directories are there when it is called, a call
\* of WriteRec in which the file system refuses nothing creates
\* RootDir/recs/fileName with the whole content (until a later call writes
\* that name again) and returns that path with no error; a call that returns
\* an error returns the empty path.
C16_WriteRecCreates ==
    \A c \in Cycles :
        WriteRecCalled(c) =>
            /\ cycles[c].io = "ok" =>
                  /\ cycles[c].wrote = "ok"
                  /\ cycles[c].path = <<"root", "recs", cycles[c].recName>>
                  /\ cycles[c].recName \in DOMAIN recs
                  /\ recs[cycles[c].recName].by = c => recs[cycles[c].recName].complete
            /\ cycles[c].wrote = "failed" => cycles[c].path = <<>>

\* A GET-class token is taken only by the step in which a cycle's Get sends
\* its request, which takes one token that was there and no call-class token.
GetTokensOnlyByGet ==
    /\ \A c \in Cycles :
          (cycles[c].pc = "get" /\ cycles'[c].pc = "downloading")
              => /\ getTokens > 0
                 /\ getTokens' = getTokens - 1
                 /\ callTokens' = callTokens
    /\ getTokens' < getTokens =>
          /\ units' = units
          /\ \E c \in Cycles : cycles[c].pc = "get" /\ cycles'[c].pc = "downloading"

\* A call-class token is taken only by the step in which a unit's Post sends
\* its request, which takes one token that was there and no GET-class token.
CallTokensOnlyByPost ==
    /\ \A id \in UnitIds :
          units'[id[1]][id[2]].sent = Unit(id).sent + 1
              => /\ callTokens > 0
                 /\ callTokens' = callTokens - 1
                 /\ getTokens' = getTokens
    /\ callTokens' < callTokens =>
          /\ cycles' = cycles
          /\ \E id \in UnitIds : units'[id[1]][id[2]].sent = Unit(id).sent + 1

\* A download waits for a GET-class token only, whatever the call units do.
GetNeverWaitsForCalls ==
    \A c \in Cycles :
        (cycles[c].pc = "get" /\ getTokens > 0) => ENABLED GetStep(c)

\* C17: Get takes GET-class tokens only and Post call-class tokens only, each
\* before its request is sent; a download goes ahead whenever a GET-class
\* token is there, however many units wait for call-class tokens.
C17_LimiterClasses ==
    /\ []GetNeverWaitsForCalls
    /\ [][GetTokensOnlyByGet /\ CallTokensOnlyByPost]_vars

\* C17 witness: a download has taken its GET-class token and sent its request
\* while the call limiter is empty and a unit waits on it.
C17_Witness ==
    /\ callTokens = 0
    /\ getTokens < GetRate
    /\ \E id \in UnitIds : Unit(id).pc = "wait"
    /\ \E c \in Cycles : cycles[c].pc = "downloading"

BadStoreEvent(c) == cycles[c].event.method = "POST" /\ ~cycles[c].event.valid

\* A recording-stored request whose body does not decode is answered 500 and
\* has started nothing.
BadStoreEventRejected ==
    \A c \in Cycles :
        BadStoreEvent(c) =>
            /\ cycles[c].pc = "done"
            /\ cycles[c].status \in {400, 500}
            /\ cycles[c].trace = <<>>
            /\ cycles[c].got = "none"
            /\ cycles[c].wrote = "none"
            /\ cycles[c].broadcast = "none"
            /\ units[c] = <<>>

DaemonServed == hook # NoHook /\ hook.path \in DaemonPaths
DaemonWritable == hook.log = <<TRUE>>

\* The server goes on: the response of the request in hand can be sent, after
\* which every request is accepted; the next recording-stored request is
\* accepted whatever the earlier ones were.
KeepsServing ==
    /\ hook # NoHook => ENABLED HookDone
    /\ hook = NoHook =>
          \A path \in DaemonPaths : \A r \in DaemonRequests : ENABLED DaemonRequest(path, r)
    /\ \A c \in Cycles :
          (cycles[c].pc = "idle" /\ \A j \in 1..(c - 1) : cycles[j].pc # "idle")
              => \A e \in Events : ENABLED Webhook(c, e)

\* C18 (as stated): in the daemon a body that is not valid JSON is answered
\* 400 and every other failure 500.
C18_InvalidJson400Else500 ==
    (DaemonServed /\ DaemonWritable) =>
        IF hook.body.readable /\ JsonKind(hook.body.text) = "invalid"
        THEN hook.resp.status = 400
        ELSE hook.resp.status \in {200, 500}

\* C18 (amended): a recording-stored request whose body does not decode is
\* answered with an error status and starts no download, store or broadcast;
\* in the daemon a body that cannot be read is answered 500, a body that does
\* not decode into the request (text that is not JSON, or a JSON value that
\* is not an object) is answered 400, and any other body 200; after every
\* request the server accepts the next one.
C18_DecodeFailures ==
    /\ BadStoreEventRejected
    /\ KeepsServing
    /\ (DaemonServed /\ DaemonWritable) =>
          hook.resp.status =
              (IF ~hook.body.readable THEN 500
               ELSE IF JsonKind(hook.body.text) # "object" THEN 400
               ELSE 200)

\* C18 witness: the first recording-stored request had a body that is not
\* JSON, the next one has run up to its broadcast, and the daemon has
\* answered 400 to a body that is a JSON array.
C18_Witness ==
    /\ DaemonServed
    /\ JsonKind(hook.body.text) = "array"
    /\ hook.resp.status = 400
    /\ \E c, d \in Cycles :
          /\ c < d
          /\ BadStoreEvent(c)
          /\ cycles[d].broadcast = "launched"

\* C19: in one broadcast on a call limiter that nothing else uses and that
\* serves first come first served at 3 tokens a second, no unit's context
\* expires while the unit waits for its token: every unit that waits has time
\* left, and no unit ends on the limiter's error.
C19_DeadlineAdequate ==
    \A id \in UnitIds :
        /\ Unit(id).pc = "wait" => Unit(id).left > 0
        /\ Unit(id).result # ErrLimiter
        /\ Unit(id).pc \in {"http", "done"} => Unit(id).granted = 1

\* C19 witness: the four units of a broadcast all entered Post within the
\* same second, the limiter gave its three tokens, and the fourth unit got
\* the first token of the next second: all four have sent their request.
C19_Witness ==
    \E c \in Cycles :
        /\ Len(units[c]) = 4
        /\ \A i \in 1..4 : units[c][i].sent = 1 /\ units[c][i].left = units[c][i].deadline - 1
        /\ \A i \in 1..4 : units[c][i].pc = "http"
        /\ callTokens = CallRate - 1

====
